---- MODULE Spec2Model ----
(***************************************************************************)
(* A model of rester: the Context environment, the precedence-driven       *)
(* evaluator of the expression dialect with its builtin operators          *)
(* (src/rester/lang.py), and the Operation / HttpClient composition layer  *)
(* (src/rester/operations, src/rester/http_decorators).                    *)
(*                                                                         *)
(* Python objects are tagged records: field k is the Python type, and the  *)
(* payload fields of two different types never share a name.  Mutable      *)
(* objects (Context, the dict a Context owns) live in `store` and are      *)
(* referred to by their index there, as Python refers to them by identity. *)
(***************************************************************************)
EXTENDS Integers, Sequences, FiniteSets, TLC

VARIABLES
    store,      \* the heap: [ctxs: Seq of Context objects, dicts: Seq of dicts]
    call,       \* the last Context method called from outside, with its return value
    program,    \* the parsed program: the statements the main loop iterates over
    pc,         \* how many statements of the program the main loop has evaluated
    result,     \* the value (or the exception raised) of the last statement evaluated
    objs,       \* the Operation objects, each referred to by its index here
    frames,     \* the perform calls still to run, innermost first
    calls,      \* what the underlying HttpClient was sent, and what it answered
    performed   \* the perform calls made so far: which operation, called by which

langVars == <<store, call, program, pc, result>>

httpVars == <<objs, frames, calls, performed>>

vars == <<store, call, program, pc, result, objs, frames, calls, performed>>

(***************************************************************************)
(* Python values and AST nodes                                             *)
(***************************************************************************)
None == [k |-> "None"]

PyInt(n) == [k |-> "int", i |-> n]

PyStr(x) == [k |-> "str", s |-> x]

PyBool(x) == [k |-> "bool", b |-> x]

\* a Python list (token sequences, argument lists and list values alike)
PyList(xs) == [k |-> "list", elems |-> xs]

\* a Python dict, insertion-ordered: a sequence of [key, val] entries
PyDict(d) == [k |-> "dict", entries |-> d]

\* an exception in flight
Raise(e) == [k |-> "raise", exc |-> e]

IsRaise(v) == v.k = "raise"

\* an evaluation's outcome: the heap it leaves and the value (or exception)
R(s, v) == [s |-> s, v |-> v]

(***************************************************************************)
(* dict                                                                    *)
(***************************************************************************)
DictHas(d, n) == \E j \in 1..Len(d) : d[j].key = n

DictGet(d, n) == d[CHOOSE j \in 1..Len(d) : d[j].key = n].val

DictSet(d, n, v) ==
    IF DictHas(d, n)
    THEN [j \in 1..Len(d) |-> IF d[j].key = n THEN [key |-> n, val |-> v] ELSE d[j]]
    ELSE Append(d, [key |-> n, val |-> v])

RECURSIVE DictDel(_, _)
DictDel(d, n) ==
    IF d = <<>> THEN <<>>
    ELSE IF Head(d).key = n THEN Tail(d)
    ELSE <<Head(d)>> \o DictDel(Tail(d), n)

DictKeys(d) == [j \in 1..Len(d) |-> d[j].key]

(***************************************************************************)
(* Identifier providers                                                    *)
(***************************************************************************)
\* a host function, named by what it computes
Lambda(f) == [k |-> "function", fn |-> f]

HasIdentifierObj == [k |-> "HasIdentifier"]

BuiltinProvide(name) ==
    IF name = "base64encode" THEN Lambda("base64encode")
    ELSE IF name \in {"get", "post", "put", "delete"} THEN Lambda(name)
    ELSE IF name = "exists" THEN HasIdentifierObj
    ELSE None

\* two providers a client of Context supplies: both answer for "a", only
\* the second for "exists"
TableProvide(p, name) ==
    IF p = "P1" THEN (IF name = "a" THEN PyInt(10) ELSE None)
    ELSE IF name = "a" THEN PyInt(20)
    ELSE IF name = "exists" THEN PyInt(30)
    ELSE None

Provide(p, name) ==
    IF p = "builtin" THEN BuiltinProvide(name) ELSE TableProvide(p, name)

\* the provider lists a Context can be constructed with; a Context holds a
\* reference (an index here) to one of them and never changes the list
ProviderLists ==
    << <<"builtin">>, <<>>, <<"P1", "P2">>, <<"P2", "P1">>, <<"builtin", "P2">> >>

(***************************************************************************)
(* Context                                                                 *)
(***************************************************************************)
Owned(s, c) == s.dicts[s.ctxs[c].identifiers]

ProvidersOf(s, c) == ProviderLists[s.ctxs[c].providers]

\* Context(providers): a new Context owning a new empty dict
NewContext(s, p) ==
    [ctxs  |-> Append(s.ctxs, [identifiers |-> Len(s.dicts) + 1, providers |-> p]),
     dicts |-> Append(s.dicts, <<>>)]

RECURSIVE FirstProvided(_, _)
FirstProvided(ps, name) ==
    IF ps = <<>> THEN None
    ELSE IF Provide(Head(ps), name) # None THEN Provide(Head(ps), name)
    ELSE FirstProvided(Tail(ps), name)

RECURSIVE LastProvided(_, _)
LastProvided(ps, name) ==
    IF ps = <<>> THEN None
    ELSE IF Provide(ps[Len(ps)], name) # None THEN Provide(ps[Len(ps)], name)
    ELSE LastProvided(SubSeq(ps, 1, Len(ps) - 1), name)

CtxGetLastProvider(s, c, name) ==
    IF DictHas(Owned(s, c), name) THEN DictGet(Owned(s, c), name)
    ELSE LastProvided(ProvidersOf(s, c), name)

CtxGet(s, c, name) ==
    IF DictHas(Owned(s, c), name) THEN DictGet(Owned(s, c), name)
    ELSE FirstProvided(ProvidersOf(s, c), name)

CtxSet(s, c, name, v) ==
    [s EXCEPT !.dicts[s.ctxs[c].identifiers] = DictSet(@, name, v)]

CtxContains(s, c, name) ==
    \/ DictHas(Owned(s, c), name)
    \/ \E j \in 1..Len(ProvidersOf(s, c)) : Provide(ProvidersOf(s, c)[j], name) # None

CtxCopyShared(s, c) ==
    [s EXCEPT !.ctxs = Append(@, [identifiers |-> s.ctxs[c].identifiers,
                                  providers   |-> s.ctxs[c].providers])]

\* the new Context is the last of the heap's
CtxCopy(s, c) ==
    [ctxs  |-> Append(s.ctxs, [identifiers |-> Len(s.dicts) + 1,
                               providers   |-> s.ctxs[c].providers]),
     dicts |-> Append(s.dicts, Owned(s, c))]

CtxDel(s, c, name) ==
    IF DictHas(Owned(s, c), name)
    THEN [s EXCEPT !.dicts[s.ctxs[c].identifiers] = DictDel(@, name)]
    ELSE s

(***************************************************************************)
(* Clients of Context: the specification of the Context object alone       *)
(***************************************************************************)
MaxContexts == 2

CtxNames == {"a", "exists"}

CtxValues == {PyInt(1), PyInt(2)}

EmptyStore == [ctxs |-> <<>>, dicts |-> <<>>]

NoCall == [op |-> "none", ctx |-> 0, name |-> "", ret |-> None]

\* no Operation exists and none is performed
NoOperations ==
    /\ objs = <<>>
    /\ frames = <<>>
    /\ calls = <<>>
    /\ performed = <<>>

InitContext ==
    /\ \E p \in 1..Len(ProviderLists) : store = NewContext(EmptyStore, p)
    /\ call = NoCall
    /\ program = <<>>
    /\ pc = 0
    /\ result = None
    /\ NoOperations

\* context.copy(), while the heap has room
Copy ==
    \E c \in 1..Len(store.ctxs) :
        /\ Len(store.ctxs) < MaxContexts
        /\ store' = CtxCopy(store, c)
        /\ call' = [op |-> "copy", ctx |-> c, name |-> "",
                    ret |-> PyInt(Len(store.ctxs) + 1)]
        /\ UNCHANGED <<program, pc, result>>
        /\ UNCHANGED httpVars

\* context.get(name)
Get ==
    \E c \in 1..Len(store.ctxs), n \in CtxNames :
        /\ call' = [op |-> "get", ctx |-> c, name |-> n, ret |-> CtxGet(store, c, n)]
        /\ UNCHANGED <<store, program, pc, result>>
        /\ UNCHANGED httpVars

\* context[name] = value
Set ==
    \E c \in 1..Len(store.ctxs), n \in CtxNames, v \in CtxValues :
        /\ store' = CtxSet(store, c, n, v)
        /\ call' = [op |-> "set", ctx |-> c, name |-> n, ret |-> None]
        /\ UNCHANGED <<program, pc, result>>
        /\ UNCHANGED httpVars

\* del context[name]
Del ==
    \E c \in 1..Len(store.ctxs), n \in CtxNames :
        /\ store' = CtxDel(store, c, n)
        /\ call' = [op |-> "del", ctx |-> c, name |-> n, ret |-> None]
        /\ UNCHANGED <<program, pc, result>>
        /\ UNCHANGED httpVars

NextContext == Copy \/ Get \/ Set \/ Del

SpecContext == InitContext /\ [][NextContext]_vars

(***************************************************************************)
(* Properties of Context                                                   *)
(***************************************************************************)
\* C1: a set or delete on one Context leaves the owned mapping of every
\* other Context as it was, in particular that of the Context it was copied
\* from and those copied from it; a copy starts with the owned bindings of
\* its original and with the very provider list of its original, and no
\* Context ever changes the provider list it consults.
CopyIndependence ==
    [][ /\ \A c \in 1..Len(store.ctxs) :
            /\ (call'.op \in {"set", "del"} /\ call'.ctx # c)
                    => Owned(store', c) = Owned(store, c)
            /\ store'.ctxs[c].providers = store.ctxs[c].providers
        /\ call'.op = "copy" =>
            /\ Len(store'.ctxs) = Len(store.ctxs) + 1
            /\ Owned(store', Len(store'.ctxs)) = Owned(store, call'.ctx)
            /\ store'.ctxs[Len(store'.ctxs)].providers = store.ctxs[call'.ctx].providers
      ]_vars

\* a copy exists, the last call wrote to one of the two, and they now differ
CopyIndependenceWitness ==
    /\ Len(store.ctxs) >= 2
    /\ call.op \in {"set", "del"}
    /\ Owned(store, 1) # Owned(store, 2)
    /\ Owned(store, 1) # <<>>
    /\ Owned(store, 2) # <<>>

\* the providers of a context that answer for a name, by position
Answering(s, c, name) ==
    {j \in 1..Len(ProvidersOf(s, c)) : Provide(ProvidersOf(s, c)[j], name) # None}

\* C2: get returns the owned binding of an owned name, else the answer of
\* the first provider (in list order) that has one, else None; it never raises.
GetLookupOrder ==
    call.op = "get" =>
        LET owned == Owned(store, call.ctx)
            hits  == Answering(store, call.ctx, call.name)
            first == CHOOSE j \in hits : \A i \in hits : j <= i
        IN  /\ ~IsRaise(call.ret)
            /\ call.ret = IF \E j \in 1..Len(owned) : owned[j].key = call.name
                           THEN (CHOOSE e \in {owned[j] : j \in 1..Len(owned)} :
                                    e.key = call.name).val
                           ELSE IF hits = {} THEN None
                           ELSE Provide(ProvidersOf(store, call.ctx)[first], call.name)

\* a get of a name that is not owned and for which two providers answer
\* differently
GetLookupOrderWitness ==
    /\ call.op = "get"
    /\ ~DictHas(Owned(store, call.ctx), call.name)
    /\ \E i, j \in Answering(store, call.ctx, call.name) :
            Provide(ProvidersOf(store, call.ctx)[i], call.name)
                # Provide(ProvidersOf(store, call.ctx)[j], call.name)
    /\ call.ret # None

(***************************************************************************)
(* AST nodes of the expression dialect and operator objects                *)
(***************************************************************************)
Constant(v) == [k |-> "Constant", value |-> v]

Identifier(n) == [k |-> "Identifier", name |-> n]

\* items: a sequence of expressions (token lists) before evaluation, of
\* values after it
ListExpression(xs) == [k |-> "ListExpression", litems |-> xs]

ExpressionList(xs) == [k |-> "ExpressionList", eitems |-> xs]

\* parts: the Python list of the statements between the braces
Expression(ps) == [k |-> "Expression", parts |-> ps]

\* the pair (callable or operator object, precedence) a name is bound to
Pair(f, p) == [k |-> "tuple", op |-> f, precedence |-> p]

\* the dict a Context owns, as a value: the dict object itself
DictRef(d) == [k |-> "dictref", ref |-> d]

\* the view dict.keys() gives of a dict
KeysView(d) == [k |-> "dict_keys", of |-> d]

\* a float, kept as the quotient that produced it
Float(a, b) == [k |-> "float", num |-> a, den |-> b]

\* the number random.random() draws
RandomFloat == [k |-> "random_float"]

AssignmentObj == [k |-> "Assignment"]

ExprEvalObj == [k |-> "ExprEval"]

ContextExtractionObj == [k |-> "ContextExtraction"]

IdentifiersObj == [k |-> "Identifiers"]

IdObj == [k |-> "Id"]

FunDefObj == [k |-> "FunDef"]

AccessObj == [k |-> "Access"]

\* a closure: its unbound parameter names, its captured bindings (a
\* Context of the heap), its body, and the Context `context` of the
\* FunDef.evaluate call that defined it
ExecutionObj(args, b, body, defctx) ==
    [k |-> "Execution", arguments |-> args, bindings |-> b,
     body |-> body, context |-> defctx]

\* isinstance(x, Operator)
IsOperator(x) == x.k \in {"FunDef", "Execution", "Access"}

\* hasattr(x, 'evaluate')
HasEvaluate(x) ==
    x.k \in {"Constant", "Identifier", "ListExpression", "ExpressionList",
             "Assignment", "ExprEval", "ContextExtraction", "Identifiers", "Id",
             "FunDef", "Access", "Execution", "HasIdentifier"}

\* bool(x)
Truthy(s, x) ==
    CASE x.k = "None" -> FALSE
      [] x.k = "int" -> x.i # 0
      [] x.k = "bool" -> x.b
      [] x.k = "str" -> x.s # ""
      [] x.k = "list" -> x.elems # <<>>
      [] x.k = "dictref" -> s.dicts[x.ref] # <<>>
      [] x.k = "dict_keys" -> s.dicts[x.of] # <<>>
      [] x.k = "float" -> x.num # 0
      [] x.k = "ListExpression" ->
            (IF x.litems.k = "list" THEN x.litems.elems # <<>>
             ELSE s.dicts[x.litems.of] # <<>>)
      [] x.k = "ExpressionList" -> x.eitems.elems # <<>>
      [] OTHER -> TRUE

(***************************************************************************)
(* The functions bound to the simple operators                             *)
(***************************************************************************)
RECURSIVE Repeat(_, _)
Repeat(xs, n) == IF n <= 0 THEN <<>> ELSE xs \o Repeat(xs, n - 1)

\* a + b
PyAdd(a, b) ==
    CASE a.k = "int" /\ b.k = "int" -> PyInt(a.i + b.i)
      [] a.k = "list" /\ b.k = "list" -> PyList(a.elems \o b.elems)
      [] a.k = "ListExpression" /\ b.k = "ListExpression"
            /\ a.litems.k = "list" /\ b.litems.k = "list" ->
            ListExpression(PyList(a.litems.elems \o b.litems.elems))
      [] a.k = "ListExpression" /\ b.k = "list" /\ a.litems.k = "list" ->
            ListExpression(PyList(a.litems.elems \o b.elems))
      [] a.k = "ListExpression" -> Raise("ValueError")
      [] a.k = "ExpressionList" /\ b.k = "ExpressionList" ->
            ExpressionList(PyList(a.eitems.elems \o b.eitems.elems))
      [] a.k = "ExpressionList" /\ b.k = "list" ->
            ExpressionList(PyList(a.eitems.elems \o b.elems))
      [] a.k = "ExpressionList" -> Raise("ValueError")
      [] OTHER -> Raise("TypeError")

\* a - b
PySub(a, b) ==
    IF a.k = "int" /\ b.k = "int" THEN PyInt(a.i - b.i) ELSE Raise("TypeError")

\* -b
PyNeg(b) == IF b.k = "int" THEN PyInt(0 - b.i) ELSE Raise("TypeError")

\* a * b
PyMul(a, b) ==
    CASE a.k = "int" /\ b.k = "int" -> PyInt(a.i * b.i)
      [] a.k = "list" /\ b.k = "int" -> PyList(Repeat(a.elems, b.i))
      [] a.k = "int" /\ b.k = "list" -> PyList(Repeat(b.elems, a.i))
      [] OTHER -> Raise("TypeError")

\* a / b
PyDiv(a, b) ==
    IF a.k = "int" /\ b.k = "int"
    THEN (IF b.i = 0 THEN Raise("ZeroDivisionError") ELSE Float(a.i, b.i))
    ELSE Raise("TypeError")

\* sum(lst), for a non-empty lst
RECURSIVE PySum(_, _)
PySum(acc, xs) ==
    IF xs = <<>> THEN acc
    ELSE IF IsRaise(PyAdd(acc, Head(xs))) \/ Head(xs).k # "int" THEN Raise("TypeError")
    ELSE PySum(PyAdd(acc, Head(xs)), Tail(xs))

\* f(*args) for the lambdas the main block binds; s is the heap, for bool(a)
CallLambda(s, f, args) ==
    CASE f.fn = "add" ->
            IF Len(args) # 2 THEN Raise("TypeError")
            ELSE IF Truthy(s, args[1]) THEN PyAdd(args[1], args[2]) ELSE args[2]
      [] f.fn = "sub" ->
            IF Len(args) # 2 THEN Raise("TypeError")
            ELSE IF Truthy(s, args[1]) THEN PySub(args[1], args[2]) ELSE PyNeg(args[2])
      [] f.fn = "mul" ->
            IF Len(args) # 2 THEN Raise("TypeError")
            ELSE IF Truthy(s, args[1]) THEN PyMul(args[1], args[2]) ELSE PyInt(0)
      [] f.fn = "div" ->
            IF Len(args) # 2 THEN Raise("TypeError")
            ELSE IF Truthy(s, args[1]) THEN PyDiv(args[1], args[2]) ELSE PyInt(1)
      [] f.fn = "sum" ->
            IF args = <<>> THEN PyInt(0) ELSE PySum(PyInt(0), args)
      [] f.fn = "random" ->
            IF args = <<>> THEN RandomFloat ELSE Raise("TypeError")
      [] OTHER -> Raise("TypeError")

\* min_op(...) for whatever a precedence pair holds
Call(s, f, args) ==
    IF f.k = "function" THEN CallLambda(s, f, args) ELSE Raise("TypeError")

(***************************************************************************)
(* evaluate: the choice of the operator to split at                        *)
(***************************************************************************)
\* the scan's initial min_precedence
InitialMinPrecedence == 1000000

\* the precedence of a bare Operator
OperatorPrecedence == 100

\* the scan's state before the first token; op_index 0 stands for Python's
\* -1 (positions here count from 1)
NoOp == [min_precedence |-> InitialMinPrecedence, op_index |-> 0, min_op |-> None]

\* what the loop body does with a candidate
TakeLater(acc, j, f, p) ==
    IF p <= acc.min_precedence
    THEN [min_precedence |-> p, op_index |-> j, min_op |-> f]
    ELSE acc

Take(acc, j, f, p) ==
    IF p < acc.min_precedence
    THEN [min_precedence |-> p, op_index |-> j, min_op |-> f]
    ELSE acc

\* for i in range(len(expr)): ..., from token j on
RECURSIVE Scan(_, _, _, _, _)
Scan(s, c, toks, j, acc) ==
    IF j > Len(toks) THEN acc
    ELSE IF toks[j].k # "Identifier" THEN Scan(s, c, toks, j + 1, acc)
    ELSE LET op == CtxGet(s, c, toks[j].name)
         IN  IF op.k = "None" THEN Scan(s, c, toks, j + 1, acc)
             ELSE IF op.k = "tuple"
             THEN Scan(s, c, toks, j + 1, Take(acc, j, op.op, op.precedence))
             ELSE IF IsOperator(op)
             THEN Scan(s, c, toks, j + 1, Take(acc, j, op, OperatorPrecedence))
             ELSE Scan(s, c, toks, j + 1, acc)

FindOp(s, c, toks) == Scan(s, c, toks, 1, NoOp)

(***************************************************************************)
(* Python's protocols on the values above                                  *)
(***************************************************************************)
Chars(x) == [j \in 1..Len(x) |-> PyStr(SubSeq(x, j, j))]

KeyStrs(d) == [j \in 1..Len(d) |-> PyStr(d[j].key)]

\* iter(x) succeeds
Iterable(x) == x.k \in {"list", "tuple", "ExpressionList", "str", "dictref", "dict_keys"}

\* list(x), for an iterable x
Elements(s, x) ==
    CASE x.k = "list" -> x.elems
      [] x.k = "tuple" -> <<x.op, PyInt(x.precedence)>>
      [] x.k = "ExpressionList" -> x.eitems.elems
      [] x.k = "str" -> Chars(x.s)
      [] x.k = "dictref" -> KeyStrs(s.dicts[x.ref])
      [] x.k = "dict_keys" -> KeyStrs(s.dicts[x.of])

\* len(x) succeeds
Sized(x) == Iterable(x) \/ x.k = "ListExpression"

\* len(x), for a sized x
PyLen(s, x) ==
    IF x.k = "ListExpression" THEN Len(Elements(s, x.litems)) ELSE Len(Elements(s, x))

\* x[0]
Index0(s, x) ==
    CASE x.k \in {"list", "tuple", "ExpressionList", "str"} ->
            (IF Elements(s, x) = <<>> THEN Raise("IndexError") ELSE Elements(s, x)[1])
      [] x.k = "dictref" -> Raise("KeyError")
      [] OTHER -> Raise("TypeError")

\* x[-1], for a non-empty list x
LastOf(x) == x.elems[Len(x.elems)]

(***************************************************************************)
(* evaluate                                                                *)
(***************************************************************************)
RECURSIVE evaluate(_, _, _)
RECURSIVE EvalEachFrom(_, _, _, _)
RECURSIVE NodeEvaluate(_, _, _)
RECURSIVE OperatorEvaluate(_, _, _, _, _)

\* [evaluate(context, e) for e in xs]
EvalEach(s, c, xs) == EvalEachFrom(s, c, xs, <<>>)

EvalEachFrom(s, c, xs, acc) ==
    IF xs = <<>> THEN R(s, PyList(acc))
    ELSE LET r == evaluate(s, c, Head(xs))
         IN  IF IsRaise(r.v) THEN r
             ELSE EvalEachFrom(r.s, c, Tail(xs), Append(acc, r.v))

\* [min_op(item, fixed) for item in items]
RECURSIVE CallEachLeft(_, _, _, _, _)
CallEachLeft(s, f, items, fixed, acc) ==
    IF items = <<>> THEN PyList(acc)
    ELSE LET v == Call(s, f, <<Head(items), fixed>>)
         IN  IF IsRaise(v) THEN v
             ELSE CallEachLeft(s, f, Tail(items), fixed, Append(acc, v))

\* [min_op(fixed, item) for item in items]
RECURSIVE CallEachRight(_, _, _, _, _)
CallEachRight(s, f, fixed, items, acc) ==
    IF items = <<>> THEN PyList(acc)
    ELSE LET v == Call(s, f, <<fixed, Head(items)>>)
         IN  IF IsRaise(v) THEN v
             ELSE CallEachRight(s, f, fixed, Tail(items), Append(acc, v))

SideArgumentsOmitNone(l, r) ==
    IF l.k = "list" THEN l.elems
    ELSE IF r.k = "list" THEN r.elems
    ELSE IF l.k = "None" THEN <<r>>
    ELSE <<l>>

\* the arguments of min_op when a side evaluated to None
SideArguments(l, r) ==
    IF l.k = "list" THEN l.elems
    ELSE IF r.k = "list" THEN r.elems
    ELSE <<l, r>>

\* what a simple operator does with the two evaluated sides
Combine(s, f, l, r) ==
    IF l.k # "None" /\ r.k # "None"
    THEN IF l.k = "list" /\ r.k # "list" THEN CallEachLeft(s, f, l.elems, r, <<>>)
         ELSE IF r.k = "list" /\ l.k # "list" THEN CallEachRight(s, f, l, r.elems, <<>>)
         ELSE Call(s, f, <<l, r>>)
    ELSE Call(s, f, SideArguments(l, r))

\* the branch of evaluate for a callable that has no evaluate
ApplySimple(s, c, f, left, right) ==
    LET l == evaluate(s, c, left)
    IN  IF IsRaise(l.v) THEN l
        ELSE LET r == evaluate(l.s, c, right)
             IN  IF IsRaise(r.v) THEN r
                 ELSE R(r.s, Combine(r.s, f, l.v, r.v))

evaluate(s, c, expr) ==
    IF expr.k \in {"list", "tuple"}
    THEN LET toks == Elements(s, expr)
         IN  IF toks = <<>> THEN R(s, None)
             ELSE IF Len(toks) = 1 THEN evaluate(s, c, toks[1])
             ELSE LET f == FindOp(s, c, toks)
                      left == PyList(SubSeq(toks, 1, f.op_index - 1))
                      right == PyList(SubSeq(toks, f.op_index + 1, Len(toks)))
                  IN  IF f.op_index = 0 THEN EvalEach(s, c, toks)
                      ELSE IF ~Truthy(s, f.min_op) THEN R(s, Raise("ValueError"))
                      ELSE IF HasEvaluate(f.min_op)
                      THEN OperatorEvaluate(s, f.min_op, c, left, right)
                      ELSE ApplySimple(s, c, f.min_op, left, right)
    ELSE IF HasEvaluate(expr) THEN NodeEvaluate(s, c, expr)
    ELSE R(s, expr)

(***************************************************************************)
(* Closures: FunDef and the Execution it returns                           *)
(***************************************************************************)
\* for arg in args: if arg in self.bindings: del self.bindings[arg]
RECURSIVE DelArgs(_, _, _)
DelArgs(s, b, args) ==
    IF args = <<>> THEN s
    ELSE DelArgs(IF CtxContains(s, b, Head(args)) THEN CtxDel(s, b, Head(args)) ELSE s,
                 b, Tail(args))

\* Execution(args, bindings); bindings is a Context, which is true
NewExecution(s, args, b, body, defctx) ==
    R(DelArgs(s, b, args), ExecutionObj(args, b, body, defctx))

\* for arg, val in zip(self.arguments, evals): if arg not in ctx: ctx[arg] = val
RECURSIVE BindArgs(_, _, _, _)
BindArgs(s, b, args, evals) ==
    IF args = <<>> \/ evals = <<>> THEN s
    ELSE BindArgs(IF CtxContains(s, b, Head(args)) THEN s
                  ELSE CtxSet(s, b, Head(args), Head(evals)),
                  b, Tail(args), Tail(evals))

\* [arg for arg in self.arguments if arg not in ctx]
Unassigned(s, b, args) == SelectSeq(args, LAMBDA a : ~CtxContains(s, b, a))

\* Execution.evaluate(ctx) with neither left nor right
Reinstantiate(s, e) ==
    LET s1 == CtxCopy(s, e.bindings)
    IN  NewExecution(s1, e.arguments, Len(s1.ctxs), e.body, e.context)

\* Execution.evaluate(ctx, left, right)
ExecutionEvaluate(s, e, left, right) ==
    IF left.elems # <<>> THEN R(s, Raise("AssertionError"))
    ELSE IF right.elems = <<>> THEN R(s, Raise("IndexError"))
    ELSE LET first == right.elems[1]
         IN  IF ~Iterable(first) THEN R(s, Raise("TypeError"))
             ELSE LET ev == EvalEach(s, e.context, Elements(s, first))
                  IN  IF IsRaise(ev.v) THEN ev
                      ELSE IF Len(ev.v.elems) > Len(e.arguments)
                      THEN R(ev.s, Raise("ValueError"))
                      ELSE LET s1 == BindArgs(ev.s, e.bindings, e.arguments, ev.v.elems)
                               un == Unassigned(s1, e.bindings, e.arguments)
                               s2 == CtxCopy(s1, e.bindings)
                           IN  IF un = <<>> THEN evaluate(s1, e.bindings, e.body)
                               ELSE NewExecution(s2, un, Len(s2.ctxs), e.body, e.context)

\* [x[0].name for x in items]
RECURSIVE FirstNames(_, _, _)
FirstNames(s, items, acc) ==
    IF items = <<>> THEN PyList(acc)
    ELSE LET x0 == Index0(s, Head(items))
         IN  IF IsRaise(x0) THEN x0
             ELSE IF x0.k # "Identifier" THEN Raise("AttributeError")
             ELSE FirstNames(s, Tail(items), Append(acc, x0.name))

\* [x.name for x in items]
RECURSIVE Names(_, _)
Names(items, acc) ==
    IF items = <<>> THEN PyList(acc)
    ELSE IF Head(items).k # "Identifier" THEN Raise("AttributeError")
    ELSE Names(Tail(items), Append(acc, Head(items).name))

\* FunDef.evaluate(context, left, right)
FunDefEvaluate(s, c, left, right) ==
    IF left.elems = <<>> THEN R(s, Raise("IndexError"))
    ELSE LET l0 == left.elems[1]
             arguments == IF l0.k = "ExpressionList" THEN FirstNames(s, l0.eitems.elems, <<>>)
                          ELSE IF Iterable(l0) THEN Names(Elements(s, l0), <<>>)
                          ELSE Raise("TypeError")
             body == IF Len(right.elems) = 1 /\ right.elems[1].k = "Expression"
                     THEN right.elems[1].parts
                     ELSE right
             s1 == CtxCopy(s, c)
         IN  IF IsRaise(arguments) THEN R(s, arguments)
             ELSE NewExecution(s1, arguments.elems, Len(s1.ctxs), body, c)

(***************************************************************************)
(* expr.evaluate(context) of the AST nodes                                 *)
(***************************************************************************)
\* Constant.evaluate(context)
ConstantEvaluate(s, c, expr) == R(s, expr.value)

IdentifierEvaluateStrict(s, c, expr) ==
    IF CtxGet(s, c, expr.name) = None THEN R(s, Raise("UnboundIdentifier"))
    ELSE R(s, CtxGet(s, c, expr.name))

\* Identifier.evaluate(context)
IdentifierEvaluate(s, c, expr) == R(s, CtxGet(s, c, expr.name))

\* ListExpression.evaluate(context)
ListExpressionEvaluate(s, c, expr) ==
    IF ~Iterable(expr.litems) THEN R(s, Raise("TypeError"))
    ELSE LET r == EvalEach(s, c, Elements(s, expr.litems))
         IN  IF IsRaise(r.v) THEN r ELSE R(r.s, ListExpression(r.v))

\* ExpressionList.evaluate(context)
ExpressionListEvaluate(s, c, expr) ==
    LET r == EvalEach(s, c, expr.eitems.elems)
    IN  IF IsRaise(r.v) THEN r
        ELSE IF Len(r.v.elems) = 1 THEN R(r.s, r.v.elems[1])
        ELSE r

\* expr.evaluate(context), by the class of expr
NodeEvaluate(s, c, expr) ==
    CASE expr.k = "Constant" -> ConstantEvaluate(s, c, expr)
      [] expr.k = "Identifier" -> IdentifierEvaluate(s, c, expr)
      [] expr.k = "ListExpression" -> ListExpressionEvaluate(s, c, expr)
      [] expr.k = "ExpressionList" -> ExpressionListEvaluate(s, c, expr)
      [] expr.k = "Execution" -> Reinstantiate(s, expr)
      \* the other objects' evaluate takes two more arguments
      [] OTHER -> R(s, Raise("TypeError"))

(***************************************************************************)
(* The special-form operators                                              *)
(***************************************************************************)
AssignmentBindsBeforeRight(s, c, left, right) ==
    LET l == IF Len(left.elems) # 1 THEN evaluate(s, c, left) ELSE R(s, left.elems[1])
    IN  IF IsRaise(l.v) THEN l
        ELSE IF l.v.k # "Identifier" THEN R(l.s, Raise("ValueError"))
        ELSE LET r == evaluate(CtxSet(l.s, c, l.v.name, None), c, right)
             IN  IF IsRaise(r.v) THEN r
                 ELSE R(CtxSet(r.s, c, l.v.name, r.v), r.v)

\* Assignment.evaluate(context, left, right)
AssignmentEvaluate(s, c, left, right) ==
    LET l == IF Len(left.elems) # 1 THEN evaluate(s, c, left) ELSE R(s, left.elems[1])
    IN  IF IsRaise(l.v) THEN l
        ELSE IF l.v.k # "Identifier" THEN R(l.s, Raise("ValueError"))
        ELSE LET r == evaluate(l.s, c, right)
             IN  IF IsRaise(r.v) THEN r
                 ELSE R(CtxSet(r.s, c, l.v.name, r.v), r.v)

\* the tail of ExprEval.evaluate: what `result` becomes
LastOrSelf(v) ==
    IF v.k = "list" THEN (IF v.elems # <<>> THEN LastOf(v) ELSE None) ELSE v

ExprEvalInPlace(s, c, left, right) ==
    IF left.elems # <<>> THEN R(s, Raise("ValueError"))
    ELSE IF Len(right.elems) # 1 THEN R(s, Raise("ValueError"))
    ELSE LET e == evaluate(s, c, right.elems[1])
         IN  IF IsRaise(e.v) THEN e
             ELSE IF e.v.k # "Expression" THEN R(e.s, Raise("AttributeError"))
             ELSE LET r == evaluate(e.s, c, e.v.parts)
                  IN  IF IsRaise(r.v) THEN r ELSE R(r.s, LastOrSelf(r.v))

\* ExprEval.evaluate(context, left, right)
ExprEvalEvaluate(s, c, left, right) ==
    IF left.elems # <<>> THEN R(s, Raise("ValueError"))
    ELSE IF Len(right.elems) # 1 THEN R(s, Raise("ValueError"))
    ELSE LET e == evaluate(s, c, right.elems[1])
             s1 == CtxCopy(e.s, c)
             local_context == Len(s1.ctxs)
         IN  IF IsRaise(e.v) THEN e
             ELSE IF e.v.k # "Expression" THEN R(s1, Raise("AttributeError"))
             ELSE LET r == evaluate(s1, local_context, e.v.parts)
                  IN  IF IsRaise(r.v) THEN r ELSE R(r.s, LastOrSelf(r.v))

ContextExtractionInPlace(s, c, left, right) ==
    LET r == evaluate(s, c, right.elems[1].parts)
    IN  IF right.elems = <<>> THEN R(s, Raise("IndexError"))
        ELSE IF right.elems[1].k # "Expression" THEN R(s, Raise("AttributeError"))
        ELSE IF IsRaise(r.v) THEN r
        ELSE R(r.s, DictRef(r.s.ctxs[c].identifiers))

\* ContextExtraction.evaluate with len(left) == 0
ContextExtractionAll(s, c, left, right) ==
    LET s1 == CtxCopy(s, c)
        my_context == Len(s1.ctxs)
        r == evaluate(s1, my_context, right.elems[1].parts)
    IN  IF right.elems = <<>> THEN R(s1, Raise("IndexError"))
        ELSE IF right.elems[1].k # "Expression" THEN R(s1, Raise("AttributeError"))
        ELSE IF IsRaise(r.v) THEN r
        ELSE R(r.s, DictRef(r.s.ctxs[my_context].identifiers))

\* ContextExtraction.evaluate with a left side
ContextExtractionOne(s, c, left, right) ==
    IF Len(left.elems) # 1 THEN R(s, Raise("ValueError"))
    ELSE IF Len(right.elems) # 1 THEN R(s, Raise("ValueError"))
    ELSE IF right.elems[1].k # "Expression" THEN R(s, Raise("ValueError"))
    ELSE LET s1 == CtxCopy(s, c)
             my_context == Len(s1.ctxs)
             identifier == evaluate(s1, my_context, left.elems[1])
             expr == evaluate(identifier.s, my_context, right.elems[1])
             body == evaluate(expr.s, my_context, expr.v.parts)
         IN  IF IsRaise(identifier.v) THEN identifier
             ELSE IF IsRaise(expr.v) THEN expr
             ELSE IF identifier.v.k = "str"
             THEN (IF IsRaise(body.v) THEN body
                   ELSE R(body.s, CtxGet(body.s, my_context, identifier.v.s)))
             ELSE IF identifier.v.k = "Expression"
             THEN (IF IsRaise(body.v) THEN body
                   ELSE evaluate(body.s, my_context, identifier.v.parts))
             ELSE R(expr.s, None)

\* ContextExtraction.evaluate(context, left, right)
ContextExtractionEvaluate(s, c, left, right) ==
    IF left.elems = <<>> THEN ContextExtractionAll(s, c, left, right)
    ELSE ContextExtractionOne(s, c, left, right)

\* Context.items(): no provider of the model has an items attribute, so
\* the merged mapping is the owned one
CtxItemKeys(s, c) == DictKeys(Owned(s, c))

\* Identifiers.evaluate(context, left, right)
IdentifiersEvaluate(s, c, left, right) ==
    LET l == evaluate(s, c, left)
        r == evaluate(l.s, c, right)
        s1 == CtxCopy(r.s, c)
        my_context == Len(s1.ctxs)
        first == Index0(s1, r.v)
        body == evaluate(s1, my_context, first.parts)
        new == SelectSeq(CtxItemKeys(body.s, my_context),
                         LAMBDA n : ~DictHas(Owned(body.s, c), n))
    IN  IF IsRaise(l.v) THEN l
        ELSE IF IsRaise(r.v) THEN r
        ELSE IF r.v.k = "None" THEN R(r.s, Raise("ValueError"))
        ELSE IF Truthy(r.s, l.v) THEN R(r.s, Raise("ValueError"))
        ELSE IF ~Sized(r.v) THEN R(r.s, Raise("TypeError"))
        ELSE IF PyLen(r.s, r.v) = 0
        THEN R(r.s, ListExpression(KeysView(r.s.ctxs[c].identifiers)))
        ELSE IF PyLen(r.s, r.v) = 1
        THEN (IF IsRaise(Index0(r.s, r.v)) THEN R(r.s, Index0(r.s, r.v))
              ELSE IF first.k # "Expression" THEN R(r.s, Raise("ValueError"))
              ELSE IF IsRaise(body.v) THEN body
              ELSE R(body.s, ListExpression(PyList([j \in 1..Len(new) |-> PyStr(new[j])]))))
        ELSE R(r.s, None)

\* Id.evaluate(context, left, right)
IdEvaluate(s, c, left, right) ==
    IF Len(left.elems) > 0 THEN R(s, Raise("ValueError"))
    ELSE LET args == evaluate(s, c, right)
         IN  IF IsRaise(args.v) THEN args
             ELSE IF args.v.k = "None" THEN R(args.s, Raise("ValueError"))
             ELSE IF ~Sized(args.v) THEN R(args.s, Raise("TypeError"))
             ELSE IF PyLen(args.s, args.v) # 1 THEN R(args.s, Raise("ValueError"))
             ELSE IF IsRaise(Index0(args.s, args.v)) THEN R(args.s, Index0(args.s, args.v))
             ELSE IF Index0(args.s, args.v).k # "str" THEN R(args.s, Raise("ValueError"))
             ELSE R(args.s, Identifier(Index0(args.s, args.v).s))

\* result[identifier]
Subscript(s, v, name) ==
    IF v.k = "dictref"
    THEN (IF DictHas(s.dicts[v.ref], name) THEN DictGet(s.dicts[v.ref], name)
          ELSE Raise("KeyError"))
    ELSE Raise("TypeError")

\* Access.evaluate(context, left, right)
AccessEvaluate(s, c, left, right) ==
    IF Len(right.elems) # 1 THEN R(s, Raise("AssertionError"))
    ELSE LET l == evaluate(s, c, left)
             res == evaluate(l.s, c, l.v)
         IN  IF IsRaise(l.v) THEN l
             ELSE IF right.elems[1].k # "Identifier" THEN R(l.s, Raise("AttributeError"))
             ELSE IF IsRaise(res.v) THEN res
             ELSE IF res.v.k = "None" THEN R(res.s, None)
             ELSE R(res.s, Subscript(res.s, res.v, right.elems[1].name))

\* HasIdentifier.evaluate(context, args, params)
HasIdentifierEvaluate(s, c, args, params) ==
    IF args.elems = <<>> THEN R(s, Raise("IndexError"))
    ELSE IF args.elems[1].k # "Identifier" THEN R(s, Raise("AttributeError"))
    ELSE R(s, PyBool(DictHas(Owned(s, c), args.elems[1].name)))

\* min_op.evaluate(context, left, right)
OperatorEvaluate(s, op, c, left, right) ==
    CASE op.k = "Assignment" -> AssignmentEvaluate(s, c, left, right)
      [] op.k = "ExprEval" -> ExprEvalEvaluate(s, c, left, right)
      [] op.k = "ContextExtraction" -> ContextExtractionEvaluate(s, c, left, right)
      [] op.k = "Identifiers" -> IdentifiersEvaluate(s, c, left, right)
      [] op.k = "Id" -> IdEvaluate(s, c, left, right)
      [] op.k = "FunDef" -> FunDefEvaluate(s, c, left, right)
      [] op.k = "Access" -> AccessEvaluate(s, c, left, right)
      [] op.k = "Execution" -> ExecutionEvaluate(s, op, left, right)
      [] op.k = "HasIdentifier" -> HasIdentifierEvaluate(s, c, left, right)
      \* an AST node's evaluate takes the context alone
      [] OTHER -> R(s, Raise("TypeError"))

(***************************************************************************)
(* The main block: the context it builds and the loop over the program     *)
(***************************************************************************)
\* context[name] = value, for each binding in turn
RECURSIVE SetAll(_, _, _)
SetAll(s, c, bs) ==
    IF bs = <<>> THEN s
    ELSE SetAll(CtxSet(s, c, Head(bs).key, Head(bs).val), c, Tail(bs))

\* the bindings the main block makes, in its order
MainBindings ==
    << [key |-> "+", val |-> Pair(Lambda("add"), 10)],
       [key |-> "-", val |-> Pair(Lambda("sub"), 10)],
       [key |-> "*", val |-> Pair(Lambda("mul"), 20)],
       [key |-> "/", val |-> Pair(Lambda("div"), 20)],
       [key |-> "sum", val |-> Pair(Lambda("sum"), 30)],
       [key |-> ".", val |-> Pair(AccessObj, 999)],
       [key |-> "=", val |-> Pair(AssignmentObj, 0)],
       [key |-> "$", val |-> Pair(ExprEvalObj, 1000)],
       [key |-> "@", val |-> Pair(ContextExtractionObj, 1000)],
       [key |-> "identifiers", val |-> Pair(IdentifiersObj, 100)],
       [key |-> "id", val |-> Pair(IdObj, 100)],
       [key |-> "random", val |-> Pair(Lambda("random"), 100)],
       [key |-> "->", val |-> Pair(FunDefObj, 5)] >>

\* the Context the main block evaluates in: the first object of the heap
MainContext == 1

\* Context(providers=[BuiltinFunctionProvider()]) with the operators bound
MainStore == SetAll(NewContext(EmptyStore, 1), MainContext, MainBindings)

(***************************************************************************)
(* Programs: what parser_ops.parse gives for the source text in the        *)
(* comment beside each statement                                           *)
(***************************************************************************)
Num(n) == Constant(PyInt(n))

Name(n) == Identifier(n)

\* expression: the flat list of the statement's value tokens
Stmt(toks) == PyList(toks)

\* "(" expression_list ")"
Paren(exprs) == ExpressionList(PyList(exprs))

\* "{" statements "}"
Brace(stmts) == Expression(PyList(stmts))

\* "[" items "]"
Bracket(exprs) == ListExpression(PyList(exprs))

\* a o1 b o2 c
Infix(a, o1, b, o2, c) == Stmt(<<Num(a), Name(o1), Num(b), Name(o2), Num(c)>>)

\* the statements the programs are made of, each under the source text it
\* is the parse of
S ==
  [
    \* x = 5
    x_5 |->
         Stmt(<<Name("x"), Name("="), Num(5)>>),
    \* x = 1
    x_1 |->
         Stmt(<<Name("x"), Name("="), Num(1)>>),
    \* x = y = 3
    x_y_3 |->
         Stmt(<<Name("x"), Name("="), Name("y"), Name("="), Num(3)>>),
    \* y = 1 - 2
    y_1m2 |->
         Stmt(<<Name("y"), Name("="), Num(1), Name("-"), Num(2)>>),
    \* x = zz
    x_zz |->
         Stmt(<<Name("x"), Name("="), Name("zz")>>),
    \* x = $(1)
    x_dollar1 |->
         Stmt(<<Name("x"), Name("="), Name("$"), Paren(<<Stmt(<<Num(1)>>)>>)>>),
    \* y = =
    y_eq |->
         Stmt(<<Name("y"), Name("="), Name("=")>>),
    \* y = 5
    y_5 |->
         Stmt(<<Name("y"), Name("="), Num(5)>>),
    \* a = 7
    a_7 |->
         Stmt(<<Name("a"), Name("="), Num(7)>>),
    \* x
    x |->
         Stmt(<<Name("x")>>),
    \* zz
    zz |->
         Stmt(<<Name("zz")>>),
    \* zz 1
    zz_1 |->
         Stmt(<<Name("zz"), Num(1)>>),
    \* 1 + zz
    n1_plus_zz |->
         Stmt(<<Num(1), Name("+"), Name("zz")>>),
    \* get
    get |->
         Stmt(<<Name("get")>>),
    \* 1 - 2 - 3
    n1m2m3 |->
         Infix(1, "-", 2, "-", 3),
    \* - 5
    neg5 |->
         Stmt(<<Name("-"), Num(5)>>),
    \* [1, 2, 3] + 1
    array_plus_1 |->
         Stmt(<<Bracket(<<Stmt(<<Num(1)>>), Stmt(<<Num(2)>>), Stmt(<<Num(3)>>)>>),
         Name("+"), Num(1)>>),
    \* (1, 2, 3) + 1
    tuple_plus_1 |->
         Stmt(<<Paren(<<Stmt(<<Num(1)>>), Stmt(<<Num(2)>>), Stmt(<<Num(3)>>)>>),
         Name("+"), Num(1)>>),
    \* 10 - (1, 2, 3)
    n10_minus_tuple |->
         Stmt(<<Num(10), Name("-"),
         Paren(<<Stmt(<<Num(1)>>), Stmt(<<Num(2)>>), Stmt(<<Num(3)>>)>>)>>),
    \* 1 2 3 * 2
    juxta_times_2 |->
         Stmt(<<Num(1), Num(2), Num(3), Name("*"), Num(2)>>),
    \* (1, 2) + (3, 4)
    tuple_plus_tuple |->
         Stmt(<<Paren(<<Stmt(<<Num(1)>>), Stmt(<<Num(2)>>)>>), Name("+"),
         Paren(<<Stmt(<<Num(3)>>), Stmt(<<Num(4)>>)>>)>>),
    \* [1, 2, 3]
    array |->
         Stmt(<<Bracket(<<Stmt(<<Num(1)>>), Stmt(<<Num(2)>>), Stmt(<<Num(3)>>)>>)>>),
    \* $(x = 2)
    dollar_paren_x_2 |->
         Stmt(<<Name("$"), Paren(<<Stmt(<<Name("x"), Name("="), Num(2)>>)>>)>>),
    \* ${x = 2}
    dollar_brace_x_2 |->
         Stmt(<<Name("$"), Brace(<<Stmt(<<Name("x"), Name("="), Num(2)>>)>>)>>),
    \* ${x = 2; y = x + 1}
    dollar_brace_two |->
         Stmt(<<Name("$"),
         Brace(<<Stmt(<<Name("x"), Name("="), Num(2)>>),
         Stmt(<<Name("y"), Name("="), Name("x"), Name("+"), Num(1)>>)>>)>>),
    \* y = ${x = 2}
    y_dollar_brace |->
         Stmt(<<Name("y"), Name("="), Name("$"),
         Brace(<<Stmt(<<Name("x"), Name("="), Num(2)>>)>>)>>),
    \* @{a = 1; b = 2}
    at_brace_a_b |->
         Stmt(<<Name("@"),
         Brace(<<Stmt(<<Name("a"), Name("="), Num(1)>>),
         Stmt(<<Name("b"), Name("="), Num(2)>>)>>)>>),
    \* @(a = 1)
    at_paren_a |->
         Stmt(<<Name("@"), Paren(<<Stmt(<<Name("a"), Name("="), Num(1)>>)>>)>>),
    \* "b" @ {a = 1; b = 2}
    b_at_brace |->
         Stmt(<<Constant(PyStr("b")), Name("@"),
         Brace(<<Stmt(<<Name("a"), Name("="), Num(1)>>),
         Stmt(<<Name("b"), Name("="), Num(2)>>)>>)>>),
    \* m = @{a = 1; b = 2}
    m_at_brace |->
         Stmt(<<Name("m"), Name("="), Name("@"),
         Brace(<<Stmt(<<Name("a"), Name("="), Num(1)>>),
         Stmt(<<Name("b"), Name("="), Num(2)>>)>>)>>),
    \* f = (x, y) -> x + y
    f_def |->
         Stmt(<<Name("f"), Name("="), Paren(<<Stmt(<<Name("x")>>), Stmt(<<Name("y")>>)>>),
         Name("->"), Name("x"), Name("+"), Name("y")>>),
    \* f 3
    f_3 |->
         Stmt(<<Name("f"), Num(3)>>),
    \* f (3)
    f_p3 |->
         Stmt(<<Name("f"), Paren(<<Stmt(<<Num(3)>>)>>)>>),
    \* g = f (3)
    g_f_p3 |->
         Stmt(<<Name("g"), Name("="), Name("f"), Paren(<<Stmt(<<Num(3)>>)>>)>>),
    \* g = f 3
    g_f_3 |->
         Stmt(<<Name("g"), Name("="), Name("f"), Num(3)>>),
    \* g 4
    g_4 |->
         Stmt(<<Name("g"), Num(4)>>),
    \* g (4)
    g_p4 |->
         Stmt(<<Name("g"), Paren(<<Stmt(<<Num(4)>>)>>)>>),
    \* f (3, 4)
    f_p3_4 |->
         Stmt(<<Name("f"), Paren(<<Stmt(<<Num(3)>>), Stmt(<<Num(4)>>)>>)>>),
    \* f (10)
    f_p10 |->
         Stmt(<<Name("f"), Paren(<<Stmt(<<Num(10)>>)>>)>>),
    \* - (1, 2)
    neg_tuple |->
         Stmt(<<Name("-"), Paren(<<Stmt(<<Num(1)>>), Stmt(<<Num(2)>>)>>)>>),
    \* (1, 2) -
    tuple_neg |->
         Stmt(<<Paren(<<Stmt(<<Num(1)>>), Stmt(<<Num(2)>>)>>), Name("-")>>),
    \* sum (1, 2, 3)
    sum_tuple |->
         Stmt(<<Name("sum"),
         Paren(<<Stmt(<<Num(1)>>), Stmt(<<Num(2)>>), Stmt(<<Num(3)>>)>>)>>),
    \* sum 5
    sum_5 |->
         Stmt(<<Name("sum"), Num(5)>>),
    \* 5 -
    n5_minus |->
         Stmt(<<Num(5), Name("-")>>),
    \* - zz
    neg_zz |->
         Stmt(<<Name("-"), Name("zz")>>),
    \* identifiers {a = 1}
    identifiers_brace |->
         Stmt(<<Name("identifiers"), Brace(<<Stmt(<<Name("a"), Name("="), Num(1)>>)>>)>>),
    \* identifiers ({a = 1})
    identifiers_paren |->
         Stmt(<<Name("identifiers"),
         Paren(<<Stmt(<<Brace(<<Stmt(<<Name("a"), Name("="), Num(1)>>)>>)>>)>>)>>),
    \* identifiers {a = 1} {b = 2}
    identifiers_two |->
         Stmt(<<Name("identifiers"), Brace(<<Stmt(<<Name("a"), Name("="), Num(1)>>)>>),
         Brace(<<Stmt(<<Name("b"), Name("="), Num(2)>>)>>)>>),
    \* identifiers ()
    identifiers_none |->
         Stmt(<<Name("identifiers"), Paren(<<>>)>>),
    \* 1 identifiers {a = 1}
    n1_identifiers |->
         Stmt(<<Num(1), Name("identifiers"),
         Brace(<<Stmt(<<Name("a"), Name("="), Num(1)>>)>>)>>),
    \* id "a"
    id_a |->
         Stmt(<<Name("id"), Constant(PyStr("a"))>>),
    \* id "ab"
    id_ab |->
         Stmt(<<Name("id"), Constant(PyStr("ab"))>>),
    \* id ("ab")
    id_paren_ab |->
         Stmt(<<Name("id"), Paren(<<Stmt(<<Constant(PyStr("ab"))>>)>>)>>),
    \* id ""
    id_empty |->
         Stmt(<<Name("id"), Constant(PyStr(""))>>),
    \* id 5
    id_5 |->
         Stmt(<<Name("id"), Num(5)>>),
    \* 1 id "a"
    n1_id_a |->
         Stmt(<<Num(1), Name("id"), Constant(PyStr("a"))>>),
    \* id zz
    id_zz |->
         Stmt(<<Name("id"), Name("zz")>>)
  ]

\* the statements a program is made of: a program draws all of its
\* statements from one of these sets
AssignMenu == {S.x_5, S.x_y_3, S.y_1m2, S.x_zz, S.x_dollar1, S.x}

UnboundMenu == {S.zz, S.zz_1, S.n1_plus_zz, S.get, S.x_zz, S.x}

AliasMenu == {S.y_eq, S.y_5, S.x_5, S.x}

PrecedenceMenu ==
    {Infix(1, o1, 2, o2, 3) : o1 \in {"-", "*"}, o2 \in {"-", "*"}}
        \cup {Infix(1, "-", 2, "+", 3), S.neg5}

BroadcastMenu ==
    {S.array_plus_1, S.tuple_plus_1, S.n10_minus_tuple, S.juxta_times_2,
     S.tuple_plus_tuple, S.array}

ScopeMenu ==
    {S.x_1, S.dollar_paren_x_2, S.dollar_brace_x_2, S.dollar_brace_two,
     S.y_dollar_brace, S.x}

ExtractionMenu == {S.a_7, S.at_brace_a_b, S.at_paren_a, S.b_at_brace, S.m_at_brace, S.x_1}

ClosureMenu ==
    {S.f_def, S.f_3, S.g_f_p3, S.g_f_3, S.g_4, S.g_p4, S.f_p3_4, S.f_p10}

UnaryMenu ==
    {S.neg5, S.neg_tuple, S.tuple_neg, S.sum_tuple, S.sum_5, S.n5_minus, S.neg_zz}

IdentifiersMenu ==
    {S.a_7, S.identifiers_brace, S.identifiers_paren, S.identifiers_two,
     S.identifiers_none, S.n1_identifiers}

IdMenu ==
    {S.id_a, S.id_ab, S.id_paren_ab, S.id_empty, S.id_5, S.n1_id_a, S.id_zz}

Menus ==
    {AssignMenu, UnboundMenu, AliasMenu, PrecedenceMenu, BroadcastMenu, ScopeMenu,
     UnaryMenu, IdentifiersMenu, IdMenu,
     ExtractionMenu, ClosureMenu}

\* the longest program
MaxProgramLen == 3

Programs ==
    UNION {UNION {[1..n -> menu] : n \in 1..MaxProgramLen} : menu \in Menus}

Init ==
    /\ store = MainStore
    /\ call = NoCall
    /\ program \in Programs
    /\ pc = 0
    /\ result = None
    /\ NoOperations

\* one turn of the loop `for r in result`: evaluate(context, r); an
\* exception ends the run
Step ==
    /\ pc < Len(program)
    /\ ~IsRaise(result)
    /\ LET r == evaluate(store, MainContext, program[pc + 1])
       IN  /\ store' = r.s
           /\ result' = r.v
    /\ pc' = pc + 1
    /\ UNCHANGED <<call, program>>
    /\ UNCHANGED httpVars

Next == Step

Spec == Init /\ [][Next]_vars

(***************************************************************************)
(* Properties of the statement loop                                        *)
(***************************************************************************)
\* the statement the loop evaluated last
Last == program[pc]

\* a step of the loop is being taken
Stepping == pc' = pc + 1

\* the statement that step evaluates
Current == program[pc + 1]

\* a dict as the mapping it is, whatever the insertion order
AsMapping(d) == [n \in {d[j].key : j \in 1..Len(d)} |-> DictGet(d, n)]

\* names the menus use that main never binds on its own
ProbeNames == {"zz", "x", "y", "a", "b", "m", "f", "g", "get"}

IsAssignment(s, st) ==
    /\ Len(st.elems) >= 2
    /\ st.elems[1].k = "Identifier"
    /\ st.elems[2] = Name("=")
    /\ FindOp(s, MainContext, st.elems).op_index = 2
    /\ FindOp(s, MainContext, st.elems).min_op = AssignmentObj

RightSide(st) == PyList(SubSeq(st.elems, 3, Len(st.elems)))

\* the owned bindings of main, apart from name n
OthersOf(s, n) ==
    [m \in DOMAIN AsMapping(Owned(s, MainContext)) \ {n} |->
        DictGet(Owned(s, MainContext), m)]

\* C4 as the specification states it: x = <rhs> whose right side
\* evaluates binds x to its value, returns the value, and changes no
\* other owned binding of the context.
AssignmentChangesOnlyTarget ==
    [][ LET st == Current IN
          (Stepping /\ IsAssignment(store, st) /\ ~IsRaise(result'))
              => /\ result' = evaluate(store, MainContext, RightSide(st)).v
                 /\ CtxGet(store', MainContext, st.elems[1].name) = result'
                 /\ OthersOf(store', st.elems[1].name)
                        = OthersOf(store, st.elems[1].name) ]_vars

\* C4, amended: x = <rhs> first evaluates the right side; if that raises,
\* the exception is the outcome and x is not bound by the statement;
\* otherwise x is bound in the owned mapping to the value, the value is
\* returned, and the only other owned bindings that differ are those the
\* evaluation of the right side itself changed (x = y = 3 binds y too).
AssignmentAfterRightSide ==
    [][ LET st == Current IN
          (Stepping /\ IsAssignment(store, st))
              => LET r == evaluate(store, MainContext, RightSide(st))
                     x == st.elems[1].name
                 IN  /\ result' = r.v
                     /\ IsRaise(r.v) => store' = r.s
                     /\ ~IsRaise(r.v) =>
                          /\ DictGet(Owned(store', MainContext), x) = r.v
                          /\ DictHas(Owned(store', MainContext), x)
                          /\ OthersOf(store', x) = OthersOf(r.s, x) ]_vars

AssignmentAfterRightSideWitness ==
    /\ pc = 2
    /\ program[1] = S.x_5
    /\ Last = S.x_y_3
    /\ result = PyInt(3)
    /\ CtxGet(store, MainContext, "x") = PyInt(3)
    /\ CtxGet(store, MainContext, "y") = PyInt(3)

\* the precedence token j of toks resolves to in context c, 0 - 1 when it
\* resolves to no operator
Resolved(s, c, toks, j) ==
    IF toks[j].k # "Identifier" THEN -1
    ELSE LET op == CtxGet(s, c, toks[j].name)
         IN  IF op.k = "tuple" THEN op.precedence
             ELSE IF IsOperator(op) THEN OperatorPrecedence
             ELSE -1

OperatorTokens(s, c, toks) ==
    {j \in 1..Len(toks) : Resolved(s, c, toks, j) >= 0}

\* the split FindOp makes of toks is at the leftmost token of minimal
\* precedence among those that resolve to an operator
LeftmostMinimal(s, c, toks) ==
    LET f == FindOp(s, c, toks)
        ops == OperatorTokens(s, c, toks)
    IN  IF ops = {} THEN f.op_index = 0
        ELSE /\ f.op_index \in ops
             /\ f.min_precedence = Resolved(s, c, toks, f.op_index)
             /\ \A j \in ops :
                   /\ f.min_precedence <= Resolved(s, c, toks, j)
                   /\ Resolved(s, c, toks, j) = f.min_precedence
                          => f.op_index <= j

\* C5: for a token sequence of length at least 2, evaluate splits at the
\* leftmost token of minimal precedence among the tokens that resolve to an
\* operator, so operators of equal precedence group to the right:
\* 1 - 2 - 3 is 1 - (2 - 3) = 2.
SplitsAtLeftmostMinimal ==
    /\ \A j \in 1..Len(program) :
          Len(program[j].elems) >= 2
              => LeftmostMinimal(store, MainContext, program[j].elems)
    /\ (pc > 0 /\ Last = S.n1m2m3) => result = PyInt(2)
    /\ (pc > 0 /\ Last = S.y_1m2 /\ IsAssignment(store, S.y_1m2))
          => result = PyInt(-1)

SplitsAtLeftmostMinimalWitness ==
    /\ pc = 2
    /\ program[1] = S.neg5
    /\ Last = S.n1m2m3
    /\ FindOp(store, MainContext, Last.elems).op_index = 2
    /\ OperatorTokens(store, MainContext, Last.elems) = {2, 4}
    /\ result = PyInt(2)

\* C6 as the specification states it: a simple operator with a list on
\* one side and a non-list on the other is applied element by element, so
\* the array literal [1, 2, 3] + 1 gives the list 2, 3, 4.
ArrayLiteralBroadcasts ==
    (pc > 0 /\ Last = S.array_plus_1)
        => result \in {PyList(<<PyInt(2), PyInt(3), PyInt(4)>>),
                       ListExpression(PyList(<<PyInt(2), PyInt(3), PyInt(4)>>))}

\* $ <body>, with `$` the token evaluate splits at
IsScoped(s, st) ==
    /\ Len(st.elems) = 2
    /\ st.elems[1] = Name("$")
    /\ FindOp(s, MainContext, st.elems).min_op = ExprEvalObj

IsReflection(s, st) ==
    /\ Len(st.elems) = 2
    /\ st.elems[1] = Name("@")
    /\ st.elems[2].k = "Expression"
    /\ FindOp(s, MainContext, st.elems).min_op = ContextExtractionObj

\* the mapping m with n bound to v
With(m, n, v) == [k \in DOMAIN m \cup {n} |-> IF k = n THEN v ELSE m[k]]

\* C8 as the specification states it: @{a = 1; b = 2} returns a map equal
\* to a: 1, b: 2 and leaves the caller's context unchanged.
ReflectionIsBodyBindings ==
    [][ (Stepping /\ Current = S.at_brace_a_b /\ IsReflection(store, Current))
            => /\ result'.k = "dictref"
               /\ AsMapping(store'.dicts[result'.ref])
                      = With(With(<<>>, "a", PyInt(1)), "b", PyInt(2))
               /\ Owned(store', MainContext) = Owned(store, MainContext) ]_vars

\* C8, amended: @{a = 1; b = 2} evaluates the body in a copy of the
\* context and returns that copy's whole owned mapping: every owned binding
\* of the caller (the operators included) together with a: 1 and b: 2; the
\* caller's context is unchanged.
ReflectionIsCopyBindings ==
    [][ (Stepping /\ Current = S.at_brace_a_b /\ IsReflection(store, Current))
            => /\ result'.k = "dictref"
               /\ result'.ref # store'.ctxs[MainContext].identifiers
               /\ AsMapping(store'.dicts[result'.ref])
                      = With(With(AsMapping(Owned(store, MainContext)),
                                  "a", PyInt(1)), "b", PyInt(2))
               /\ Owned(store', MainContext) = Owned(store, MainContext) ]_vars

ReflectionIsCopyBindingsWitness ==
    /\ pc = 2
    /\ program[1] = S.a_7
    /\ Last = S.at_brace_a_b
    /\ result.k = "dictref"
    /\ DictGet(store.dicts[result.ref], "a") = PyInt(1)
    /\ DictGet(store.dicts[result.ref], "b") = PyInt(2)
    /\ DictHas(store.dicts[result.ref], "=")
    /\ CtxGet(store, MainContext, "a") = PyInt(7)
    /\ ~CtxContains(store, MainContext, "b")

\* C9 as the specification states it: with f = (x, y) -> x + y, applying f
\* to the single argument 3 (f 3) gives a closure whose one remaining
\* parameter is y, and applying that closure to 4 gives 7.
PartialApplication ==
    /\ (pc = 2 /\ program[1] = S.f_def /\ Last = S.f_3)
          => result.k = "Execution" /\ result.arguments = <<"y">>
    /\ (pc = 3 /\ program[1] = S.f_def /\ program[2] = S.g_f_3 /\ Last = S.g_4)
          => result = PyInt(7)

\* C12 as the specification states it: applying a closure to arguments
\* never changes the closure itself: its captured bindings and remaining
\* parameters are the same before and after each application, so f (3, 4)
\* gives 7 whatever f was applied to before.
ApplicationLeavesClosure ==
    [][ (Stepping /\ Current # S.f_def
            /\ CtxGet(store, MainContext, "f").k = "Execution")
            => LET f == CtxGet(store, MainContext, "f")
               IN  /\ CtxGet(store', MainContext, "f") = f
                   /\ Owned(store', f.bindings) = Owned(store, f.bindings)
                   /\ Current = S.f_p3_4 => result' = PyInt(7) ]_vars

\* the statement splits at a simple operator (a plain function) with
\* exactly one side an empty token sequence
IsUnary(s, st) ==
    /\ Len(st.elems) >= 2
    /\ FindOp(s, MainContext, st.elems).op_index \in {1, Len(st.elems)}
    /\ FindOp(s, MainContext, st.elems).min_op.k = "function"

\* the evaluation of the side that is not empty
OtherSide(s, st) ==
    evaluate(s, MainContext,
             IF FindOp(s, MainContext, st.elems).op_index = 1
             THEN PyList(Tail(st.elems))
             ELSE PyList(SubSeq(st.elems, 1, Len(st.elems) - 1)))

\* C13 as the specification states it: when exactly one side of the chosen
\* simple operator is an empty token sequence, the function is called with
\* only the other side's value(s) as arguments (its elements when the value
\* is a list) and no argument for the empty side.
UnaryCallOmitsEmptySide ==
    [][ (Stepping /\ IsUnary(store, Current)
            /\ ~IsRaise(OtherSide(store, Current).v))
            => LET side == OtherSide(store, Current)
                   f == FindOp(store, MainContext, Current.elems).min_op
               IN  result' = Call(side.s, f,
                                  IF side.v.k = "list" THEN side.v.elems
                                  ELSE <<side.v>>) ]_vars

\* C13, amended: when exactly one side of the chosen simple operator is an
\* empty token sequence, that side evaluates to None; if the other side's
\* value is a list the function is called with the elements of the list as
\* its arguments and nothing for the empty side; otherwise it is called
\* with two arguments, None in the place of the empty side and the other
\* side's value in its own place (so - 5 is sub(None, 5) = -5).
UnaryCallPassesNone ==
    [][ (Stepping /\ IsUnary(store, Current)
            /\ ~IsRaise(OtherSide(store, Current).v))
            => LET side == OtherSide(store, Current)
                   f == FindOp(store, MainContext, Current.elems)
               IN  /\ result' = Call(side.s, f.min_op,
                                     IF side.v.k = "list" THEN side.v.elems
                                     ELSE IF f.op_index = 1 THEN <<None, side.v>>
                                     ELSE <<side.v, None>>)
                   /\ Current = S.neg5 => result' = PyInt(-5)
                   /\ Current = S.sum_tuple => result' = PyInt(6) ]_vars

UnaryCallPassesNoneWitness ==
    /\ pc = 2
    /\ program[1] = S.sum_tuple
    /\ Last = S.neg5
    /\ IsUnary(store, Last)
    /\ OtherSide(store, Last).v = PyInt(5)
    /\ result = PyInt(-5)

\* identifiers {...}: nothing on the left, one quoted Expression on the right
IsIdentifiersOf(st) ==
    /\ Len(st.elems) = 2
    /\ st.elems[1] = Name("identifiers")
    /\ st.elems[2].k = "Expression"

\* the names a mapping owns
OwnedNames(s, c) == {DictKeys(Owned(s, c))[j] : j \in 1..Len(Owned(s, c))}

\* the names a ListExpression of strings lists
Listed(v) == {v.litems.elems[j].s : j \in 1..Len(v.litems.elems)}

\* C14 as the specification states it: identifiers {...} with nothing on
\* its left evaluates the Expression in a copy of the caller's context and
\* returns exactly the names the copy owns afterwards that the caller's
\* context did not own before, and leaves the caller's context unchanged.
IdentifiersListsNewNames ==
    [][ (Stepping /\ IsIdentifiersOf(Current))
            => LET s1 == CtxCopy(store, MainContext)
                   my_context == Len(s1.ctxs)
                   body == evaluate(s1, my_context, Current.elems[2].parts)
               IN  /\ result'.k = "ListExpression"
                   /\ result'.litems.k = "list"
                   /\ Listed(result') = OwnedNames(body.s, my_context)
                                            \ OwnedNames(store, MainContext)
                   /\ Owned(store', MainContext) = Owned(store, MainContext) ]_vars

\* id with one token on its right and nothing on its left
IsIdOf(st) ==
    /\ Len(st.elems) = 2
    /\ st.elems[1] = Name("id")

\* the value of the argument of id
IdArgument(s, st) == evaluate(s, MainContext, PyList(<<st.elems[2]>>)).v

\* C15 as the specification states it: id with nothing on its left and one
\* argument that evaluates to a string s returns the Identifier named s,
\* whatever the length of s; with something on its left, or with an
\* argument that is not a string, it fails.
IdNamesAnyString ==
    [][ Stepping
            => /\ (IsIdOf(Current) /\ IdArgument(store, Current).k = "str")
                      => result' = Identifier(IdArgument(store, Current).s)
               /\ (IsIdOf(Current) /\ IdArgument(store, Current).k # "str")
                      => IsRaise(result')
               /\ (/\ FindOp(store, MainContext, Current.elems).min_op = IdObj
                   /\ FindOp(store, MainContext, Current.elems).op_index > 1)
                      => IsRaise(result') ]_vars

(***************************************************************************)
(* Operations and HttpClient decorators                                    *)
(***************************************************************************)
\* an attribute never assigned
Unset == [k |-> "unset"]

\* RequestOperation(url, method, data, headers)
RequestOperation(u, m, d, h) ==
    [k |-> "RequestOperation", url |-> u, method |-> m, data |-> d,
     headers |-> h, result |-> Unset]

\* operations.Constant(value)
ConstantOperation(v) == [k |-> "operations.Constant", value |-> v]

\* Sequence(sequence, baseurl)
Sequence(ops, b) == [k |-> "Sequence", sequence |-> ops, baseurl |-> b]

\* BearerAuthOperation(auth_request, request, prefix)
BearerAuthOperation(a, r, p) ==
    [k |-> "BearerAuthOperation", auth_request |-> a, request |-> r, prefix |-> p]

\* WithBaseUrl(http, baseurl); the http it wraps is the rest of the chain
WithBaseUrl(b) == [k |-> "WithBaseUrl", baseurl |-> b]

\* WithHeaders(http, headers)
WithHeaders(h) == [k |-> "WithHeaders", hdrs |-> h]

\* the arguments of one send_request call
Request(u, m, d, h) == [url |-> u, method |-> m, data |-> d, headers |-> h]

\* x.get_result()
RECURSIVE GetResult(_, _)
RECURSIVE GetResults(_, _, _)
GetResults(os, ids, acc) ==
    IF ids = <<>> THEN PyList(acc)
    ELSE LET v == GetResult(os, Head(ids))
         IN  IF IsRaise(v) THEN v ELSE GetResults(os, Tail(ids), Append(acc, v))

GetResult(os, id) ==
    CASE os[id].k = "RequestOperation" ->
            IF os[id].result = Unset THEN Raise("AttributeError") ELSE os[id].result
      [] os[id].k = "operations.Constant" -> os[id].value
      [] os[id].k = "Sequence" -> GetResults(os, os[id].sequence, <<>>)
      [] OTHER -> None

\* repr(v) and str(v), of the values results are made of
RECURSIVE Repr(_)
RECURSIVE JoinRepr(_)
JoinRepr(xs) ==
    IF xs = <<>> THEN ""
    ELSE IF Len(xs) = 1 THEN Repr(xs[1])
    ELSE Repr(xs[1]) \o ", " \o JoinRepr(Tail(xs))

Repr(v) ==
    CASE v.k = "str" -> "'" \o v.s \o "'"
      [] v.k = "None" -> "None"
      [] v.k = "list" -> "[" \o JoinRepr(v.elems) \o "]"

Str(v) == IF v.k = "str" THEN v.s ELSE Repr(v)

\* {"Authorization": "%s %s" % (self.prefix, result)}
Authorization(prefix, v) ==
    PyDict(<<[key |-> "Authorization", val |-> PyStr(prefix \o " " \o Str(v))]>>)

WithBaseUrlAppends(d, req) == [req EXCEPT !.url = @ \o d.baseurl]

\* what WithBaseUrl.send_request passes to the client it wraps
WithBaseUrlSend(d, req) == [req EXCEPT !.url = d.baseurl \o @]

\* what WithHeaders.send_request passes to the client it wraps
WithHeadersSend(d, req) ==
    IF req.headers = None THEN [req EXCEPT !.headers = d.hdrs] ELSE req

\* the send_request calls one request makes on its way down the chain
\* http, outermost decorator first: the arguments each client receives,
\* the underlying client last
RECURSIVE Hops(_, _)
Hops(http, req) ==
    IF http = <<>> THEN <<req>>
    ELSE <<req>> \o Hops(Tail(http),
                         IF Head(http).k = "WithBaseUrl"
                         THEN WithBaseUrlSend(Head(http), req)
                         ELSE WithHeadersSend(Head(http), req))

\* what send_request on the chain returns when the underlying client
\* answers v: WithBaseUrl returns what it is given, WithHeaders returns
\* nothing
RECURSIVE Returned(_, _)
Returned(http, v) ==
    IF http = <<>> THEN v
    ELSE IF Head(http).k = "WithBaseUrl" THEN Returned(Tail(http), v)
    ELSE None

\* the underlying client: a mock that answers its calls with these, in turn
Answers == <<"r1", "r2", "r3", "r4", "r5">>

Answer(n) == PyStr(Answers[((n - 1) % Len(Answers)) + 1])

\* Operations to build the inputs from
LeafKinds == {"RA", "RB", "K"}

Leaf(kind) ==
    CASE kind = "RA" -> RequestOperation("/a/", "GET", PyDict(<<>>), None)
      [] kind = "RB" ->
            RequestOperation("/b", "POST", PyStr("x"),
                             PyDict(<<[key |-> "A", val |-> PyStr("B")]>>))
      [] kind = "K" -> ConstantOperation(PyStr("token"))

BaseUrls == {"", "http://localhost"}

\* the longest Sequence of leaves
MaxOps == 3

Upto(n) == [j \in 1..n |-> j]

\* the inputs: each a heap of Operations whose last object is the one
\* performed
Inputs ==
    UNION {{[j \in 1..Len(ks) |-> Leaf(ks[j])] \o <<Sequence(Upto(Len(ks)), b)>> :
              ks \in [1..m -> LeafKinds], b \in BaseUrls} : m \in 0..MaxOps}
    \cup {
      \* r = RequestOperation(...); Sequence([r, r], "http://localhost")
      <<Leaf("RA"), Sequence(<<1, 1>>, "http://localhost")>>,
      \* Sequence([BearerAuthOperation(Constant("token"), RA), RB], "http://localhost")
      <<Leaf("K"), Leaf("RA"), BearerAuthOperation(1, 2, "Bearer"), Leaf("RB"),
        Sequence(<<3, 4>>, "http://localhost")>>,
      \* Sequence([Sequence([RA], "/v1"), RB], "http://localhost")
      <<Leaf("RA"), Sequence(<<1>>, "/v1"), Leaf("RB"),
        Sequence(<<2, 3>>, "http://localhost")>>,
      \* BearerAuthOperation(Constant("token"), Sequence([RA, RB]), "JWT")
      <<Leaf("K"), Leaf("RA"), Leaf("RB"), Sequence(<<2, 3>>, ""),
        BearerAuthOperation(1, 4, "JWT")>>,
      \* BearerAuthOperation(Constant("token"), RA)
      <<Leaf("K"), Leaf("RA"), BearerAuthOperation(1, 2, "Bearer")>>,
      \* BearerAuthOperation(RA, RA)
      <<Leaf("RA"), Leaf("RA"), BearerAuthOperation(1, 2, "Bearer")>>,
      \* BearerAuthOperation(Sequence([RA]), RB)
      <<Leaf("RA"), Sequence(<<1>>, ""), Leaf("RB"),
        BearerAuthOperation(2, 3, "Bearer")>>,
      \* RequestOperation(...) alone
      <<Leaf("RA")>>,
      <<Leaf("RB")>> }

\* the operation performed from outside
Root == Len(objs)

\* x.perform(http) about to run, called by operation `by` (0: from outside)
Perform(x, http, by) == [k |-> "perform", op |-> x, http |-> http, by |-> by]

\* BearerAuthOperation.perform after self.auth_request.perform(http)
Authorized(x, http) == [k |-> "authorized", op |-> x, http |-> http, by |-> 0]

InitOperations ==
    /\ store = EmptyStore
    /\ call = NoCall
    /\ program = <<>>
    /\ pc = 0
    /\ result = None
    /\ objs \in Inputs
    /\ frames = <<Perform(Len(objs), <<>>, 0)>>
    /\ calls = <<>>
    /\ performed = <<>>

Top == Head(frames)

Entering(kind) ==
    /\ frames # <<>>
    /\ Top.k = "perform"
    /\ objs[Top.op].k = kind
    /\ performed' = Append(performed, [op |-> Top.op, by |-> Top.by, http |-> Top.http])

\* RequestOperation.perform(http)
PerformRequest ==
    /\ Entering("RequestOperation")
    /\ LET x == objs[Top.op]
           req == Request(x.url, x.method, x.data, x.headers)
           v == Answer(Len(calls) + 1)
       IN  /\ calls' = Append(calls, [sender |-> Top.op, http |-> Top.http,
                                      hops |-> Hops(Top.http, req),
                                      response |-> v])
           /\ objs' = [objs EXCEPT ![Top.op].result = Returned(Top.http, v)]
    /\ frames' = Tail(frames)
    /\ UNCHANGED langVars

\* operations.Constant.perform(http)
PerformConstant ==
    /\ Entering("operations.Constant")
    /\ frames' = Tail(frames)
    /\ UNCHANGED <<objs, calls>>
    /\ UNCHANGED langVars

\* Sequence.perform(http)
PerformSequence ==
    /\ Entering("Sequence")
    /\ LET q == objs[Top.op]
       IN  frames' = [j \in 1..Len(q.sequence) |->
                         Perform(q.sequence[j], <<WithBaseUrl(q.baseurl)>> \o Top.http,
                                 Top.op)]
                     \o Tail(frames)
    /\ UNCHANGED <<objs, calls>>
    /\ UNCHANGED langVars

\* BearerAuthOperation.perform(http), up to self.auth_request.perform(http)
PerformBearerAuth ==
    /\ Entering("BearerAuthOperation")
    /\ frames' = <<Perform(objs[Top.op].auth_request, Top.http, Top.op),
                   Authorized(Top.op, Top.http)>> \o Tail(frames)
    /\ UNCHANGED <<objs, calls>>
    /\ UNCHANGED langVars

\* BearerAuthOperation.perform(http), from result = ... on
PerformAuthorized ==
    /\ frames # <<>>
    /\ Top.k = "authorized"
    /\ LET x == objs[Top.op]
           v == GetResult(objs, x.auth_request)
       IN  frames' =
              IF IsRaise(v) THEN <<>>
              ELSE <<Perform(x.request,
                             <<WithHeaders(Authorization(x.prefix, v))>> \o Top.http,
                             Top.op)>> \o Tail(frames)
    /\ UNCHANGED <<objs, calls, performed>>
    /\ UNCHANGED langVars

NextOperations ==
    \/ PerformRequest
    \/ PerformConstant
    \/ PerformSequence
    \/ PerformBearerAuth
    \/ PerformAuthorized

SpecOperations == InitOperations /\ [][NextOperations]_vars

(***************************************************************************)
(* Properties of performing Operations                                     *)
(***************************************************************************)
\* the operations q called perform on so far, in the order of the calls
CalledBy(q) ==
    LET es == SelectSeq(performed, LAMBDA e : e.by = q)
    IN  [j \in 1..Len(es) |-> es[j].op]

IsPrefix(a, b) == Len(a) <= Len(b) /\ a = SubSeq(b, 1, Len(a))

\* the perform call from outside has returned
Finished == frames = <<>> /\ performed # <<>>

Sequences == {q \in 1..Len(objs) : objs[q].k = "Sequence"}

\* C10: Sequence(ops, baseurl).perform(http) performs the operations in
\* list order, each on a client that passes every request on to http with
\* the URL baseurl + url and the method, data and headers it was given;
\* after it, get_result() is the list of the operations' results in the
\* same order, as long as the list of operations.
SequencePerformsInOrder ==
    /\ \A q \in Sequences :
          /\ IsPrefix(CalledBy(q), objs[q].sequence)
          /\ (Finished /\ \E j \in 1..Len(performed) : performed[j].op = q)
                => CalledBy(q) = objs[q].sequence
    /\ \A j \in 1..Len(performed) :
          performed[j].by \in Sequences
              => /\ performed[j].http # <<>>
                 /\ Head(performed[j].http) = WithBaseUrl(objs[performed[j].by].baseurl)
    /\ \A n \in 1..Len(calls) : \A j \in 1..Len(calls[n].http) :
          calls[n].http[j].k = "WithBaseUrl"
              => calls[n].hops[j + 1]
                    = Request(calls[n].http[j].baseurl \o calls[n].hops[j].url,
                              calls[n].hops[j].method, calls[n].hops[j].data,
                              calls[n].hops[j].headers)
    /\ (Finished /\ Root \in Sequences)
          => /\ GetResult(objs, Root)
                    = PyList([j \in 1..Len(objs[Root].sequence) |->
                                 GetResult(objs, objs[Root].sequence[j])])
             /\ Len(GetResult(objs, Root).elems) = Len(objs[Root].sequence)
             /\ \A n \in 1..Len(calls) :
                   (/\ calls[n].http = <<WithBaseUrl(objs[Root].baseurl)>>
                    /\ \A m \in n + 1..Len(calls) : calls[m].sender # calls[n].sender)
                       => GetResult(objs, calls[n].sender) = calls[n].response

SequencePerformsInOrderWitness ==
    /\ Finished
    /\ objs[Root] = Sequence(<<1, 2, 3>>, "http://localhost")
    /\ \A j \in 1..3 : objs[j].k = "RequestOperation" /\ objs[j].url = "/a/"
    /\ Len(calls) = 3
    /\ \A n \in 1..3 : calls[n].hops[2] = Request("http://localhost/a/", "GET", PyDict(<<>>), None)
    /\ GetResult(objs, Root) = PyList(<<PyStr("r1"), PyStr("r2"), PyStr("r3")>>)

\* the operations operation x performs: itself and, through it, the
\* operations it holds
RECURSIVE Within(_, _)
Within(os, x) ==
    CASE os[x].k = "Sequence" ->
            {x} \cup UNION {Within(os, os[x].sequence[j]) : j \in 1..Len(os[x].sequence)}
      [] os[x].k = "BearerAuthOperation" ->
            {x} \cup Within(os, os[x].auth_request) \cup Within(os, os[x].request)
      [] OTHER -> {x}

BearerAuths == {b \in 1..Len(objs) : objs[b].k = "BearerAuthOperation"}

\* what the underlying client received in its n-th call
Received(n) == calls[n].hops[Len(calls[n].hops)]

\* C11 as the specification states it: BearerAuthOperation(auth, request,
\* prefix).perform(http) performs auth before the wrapped operation, and
\* every request the wrapped operation sends reaches the underlying client
\* with headers containing Authorization = prefix + " " + auth.get_result().
BearerAuthorizesEveryRequest ==
    \A b \in BearerAuths :
        /\ \A i, j \in 1..Len(performed) :
              (/\ performed[i].by = b /\ performed[i].op = objs[b].auth_request
               /\ performed[j].by = b /\ performed[j].op = objs[b].request)
                  => i < j
        /\ \A n \in 1..Len(calls) :
              calls[n].sender \in Within(objs, objs[b].request)
                  => /\ Received(n).headers.k = "dict"
                     /\ DictHas(Received(n).headers.entries, "Authorization")
                     /\ DictGet(Received(n).headers.entries, "Authorization")
                           = PyStr(objs[b].prefix \o " "
                                   \o Str(GetResult(objs, objs[b].auth_request)))

\* the calls after which the sending operation sent nothing more
LastCalls ==
    {n \in 1..Len(calls) : \A m \in n + 1..Len(calls) : calls[m].sender # calls[n].sender}

\* C16 as the specification states it: after perform, a RequestOperation's
\* get_result() is the value the underlying client's send_request returned
\* for its request, whether it was performed directly or through any chain
\* of WithBaseUrl and WithHeaders clients (inside a Sequence or a
\* BearerAuthOperation).
ResultIsClientResponse ==
    \A n \in LastCalls :
        /\ objs[calls[n].sender].k = "RequestOperation"
        /\ GetResult(objs, calls[n].sender) = calls[n].response

====
